---------------------------- MODULE Spec2Model ----------------------------
(***************************************************************************)
(* A model of the YakkerTech streaming metric aggregator                   *)
(* (YakkerStreamApp/Resources/yakker_stream.py): the validity classifier,  *)
(* the MetricAggregator, process_payload and the YakkerStreamer run loop.  *)
(*                                                                         *)
(* Conventions.                                                            *)
(*  - A JSON / Python value is a record [t, m, e, s]: t is its kind        *)
(*    ("none", "num", "nan", "inf", "str", "obj"); a finite number is the  *)
(*    exact decimal m * 10^-e, normalised so that m has no trailing zero   *)
(*    when e > 0; an infinity keeps its sign in m; a string is the         *)
(*    sequence s of its characters.                                        *)
(*  - Time is the wall clock in milliseconds (the resolution of the        *)
(*    synthesized event key, int(time.time() * 1000)).                     *)
(***************************************************************************)
EXTENDS Integers, Sequences, FiniteSets, TLC

VARIABLES
    now,            \* time.time(), in milliseconds
    events,         \* MetricAggregator.events: event key -> bucket
    latest_event_id,\* MetricAggregator.latest_event_id
    last_update_ts, \* MetricAggregator.last_update_ts
    latest_metrics, \* MetricAggregator.latest_metrics: metric -> entry or NoEntry
    rolling_buffer, \* MetricAggregator.rolling_buffer: metric -> Seq(sample)
    calls,          \* number of add_measurement calls made (bounded by MaxCalls)
    ret,            \* the last operation and what it returned
    accepted,       \* history: metric -> the last valid reading accepted and its event
    pc,             \* YakkerStreamer.run: position in the run loop
    status,         \* status["connection"]
    wakeAt,         \* deadline of the pending asyncio.sleep
    frames,         \* number of websocket messages received (bounded by MaxFrames)
    fault,          \* history: how many times run() caught an exception, and the last cause
    hookLog,        \* the payload hooks registered, and history: what the last dispatch invoked
    frameLog,       \* history: the kinds of the websocket messages received
    arg,            \* the input last given: a classifier's argument, the payload last processed
    res,            \* the result of the classifier applied to arg
    tasks,          \* the concurrent callers of the aggregator: position, operation, locals
    lock,           \* MetricAggregator._lock: the task holding it, or NoTask
    order,          \* history: the tasks in the order in which they acquired the lock
    unread          \* the table and buffers of an aggregator given the same
                    \* add_measurement calls and never read

vars == <<now, events, latest_event_id, last_update_ts, latest_metrics,
          rolling_buffer, calls, ret, accepted, pc, status, wakeAt, frames, fault, hookLog, frameLog, arg, res,
          tasks, lock, order, unread>>

aggVars == <<events, latest_event_id, last_update_ts, latest_metrics, rolling_buffer>>

feedVars == <<pc, status, wakeAt, frames, fault, hookLog, frameLog>>

pureVars == <<arg, res>>

concVars == <<tasks, lock, order>>

-----------------------------------------------------------------------------
(* Bounds of the model *)

MaxStrLen == 3      \* longest string reading enumerated
MaxCalls == 2       \* add_measurement calls per behaviour
MaxSeqCalls == 3    \* add_measurement calls per behaviour of SpecAggSeq
MaxContrib == 2     \* longest contributing_events list enumerated
MaxFrames == 2      \* websocket messages received per behaviour
MaxRetries == 2     \* failures followed to their retry in the liveness check
MaxHooks == 2       \* longest payload_hooks list
MaxTasks == 2       \* concurrent callers of the aggregator
MaxDemoFrames == 4  \* samples emitted by the demo feed per behaviour

-----------------------------------------------------------------------------
(* Values *)

None == [t |-> "none", m |-> 0, e |-> 0, s |-> <<>>]

RECURSIVE Pow10(_)
Pow10(k) == IF k = 0 THEN 1 ELSE 10 * Pow10(k - 1)

RECURSIVE Normalise(_, _)
Normalise(m, e) ==
    IF e > 0 /\ m % 10 = 0 THEN Normalise(m \div 10, e - 1)
    ELSE [t |-> "num", m |-> m, e |-> e, s |-> <<>>]

\* the float m * 10^-e
Dec(m, e) == Normalise(m, e)

Num(n) == Dec(n, 0)

NaN == [t |-> "nan", m |-> 0, e |-> 0, s |-> <<>>]

Inf(sign) == [t |-> "inf", m |-> sign, e |-> 0, s |-> <<>>]

Str(cs) == [t |-> "str", m |-> 0, e |-> 0, s |-> cs]

\* a JSON array or object where a scalar is expected
Obj == [t |-> "obj", m |-> 0, e |-> 0, s |-> <<>>]

\* an int too large for a float, as json.loads returns for a long integer literal
BigInt == [t |-> "bigint", m |-> 0, e |-> 0, s |-> <<>>]

IsFloat(v) == v.t \in {"num", "nan", "inf"}

\* a < b on floats (IEEE: every comparison with nan is false)
FloatLt(a, b) ==
    CASE a.t = "nan" \/ b.t = "nan" -> FALSE
      [] a.t = "inf" /\ b.t = "inf" -> a.m < b.m
      [] a.t = "inf" -> a.m < 0
      [] b.t = "inf" -> b.m > 0
      [] OTHER -> a.m * Pow10(b.e) < b.m * Pow10(a.e)

\* a <= b on floats
FloatLe(a, b) ==
    CASE a.t = "nan" \/ b.t = "nan" -> FALSE
      [] OTHER -> FloatLt(a, b) \/ a = b

\* Python truthiness of a value (the operand of `or`)
Truthy(v) ==
    CASE v.t = "none" -> FALSE
      [] v.t = "num" -> v.m # 0
      [] v.t = "str" -> v.s # <<>>
      [] OTHER -> TRUE

\* Python `a or b`
PyOr(a, b) == IF Truthy(a) THEN a ELSE b

-----------------------------------------------------------------------------
(* str.lower() and float() on character sequences *)

UpperCase == <<"A","B","C","D","E","F","G","H","I","J","K","L","M",
               "N","O","P","Q","R","S","T","U","V","W","X","Y","Z">>

LowerCase == <<"a","b","c","d","e","f","g","h","i","j","k","l","m",
               "n","o","p","q","r","s","t","u","v","w","x","y","z">>

LowerChar(c) ==
    IF \E i \in 1..26 : UpperCase[i] = c
    THEN LowerCase[CHOOSE i \in 1..26 : UpperCase[i] = c]
    ELSE c

\* str.lower()
Lower(cs) == [i \in 1..Len(cs) |-> LowerChar(cs[i])]

Digits == <<"0","1","2","3","4","5","6","7","8","9">>

IsDigit(c) == \E i \in 1..10 : Digits[i] = c

DigitVal(c) == (CHOOSE i \in 1..10 : Digits[i] = c) - 1

RECURSIVE StripLeft(_)
StripLeft(cs) ==
    IF cs # <<>> /\ Head(cs) = " " THEN StripLeft(Tail(cs)) ELSE cs

RECURSIVE StripRight(_)
StripRight(cs) ==
    IF cs # <<>> /\ cs[Len(cs)] = " " THEN StripRight(SubSeq(cs, 1, Len(cs) - 1)) ELSE cs

\* the value of a digit string, most significant digit first
RECURSIVE DigitsVal(_)
DigitsVal(cs) ==
    IF cs = <<>> THEN 0
    ELSE DigitsVal(SubSeq(cs, 1, Len(cs) - 1)) * 10 + DigitVal(cs[Len(cs)])

ParseError == [t |-> "error", m |-> 0, e |-> 0, s |-> <<>>]

\* the OverflowError of float() on an int too large
OverflowError == [t |-> "overflow", m |-> 0, e |-> 0, s |-> <<>>]

\* an unsigned decimal numeral: digits with at most one point and at least one
\* digit (exponents and digit-group underscores are outside the modelled alphabet)
ParseUnsigned(cs, sign) ==
    LET points == {i \in 1..Len(cs) : cs[i] = "."}
        digs == SelectSeq(cs, IsDigit)
    IN  IF /\ \A i \in 1..Len(cs) : IsDigit(cs[i]) \/ cs[i] = "."
           /\ Cardinality(points) <= 1
           /\ digs # <<>>
        THEN LET p == IF points = {} THEN Len(cs) ELSE CHOOSE i \in points : TRUE
             IN  Dec(sign * DigitsVal(digs), Len(cs) - p)
        ELSE ParseError

\* float(str): surrounding whitespace is ignored, then an optional sign, then
\* "nan", "inf", "infinity" in any letter case or a decimal numeral
ParseFloat(cs) ==
    LET body == StripRight(StripLeft(cs))
        signed == body # <<>> /\ Head(body) \in {"+", "-"}
        sign == IF signed /\ Head(body) = "-" THEN -1 ELSE 1
        rest == IF signed THEN Tail(body) ELSE body
        low == Lower(rest)
    IN  IF low = <<"n","a","n">> THEN NaN
        ELSE IF low = <<"i","n","f">> \/ low = <<"i","n","f","i","n","i","t","y">>
        THEN Inf(sign)
        ELSE ParseUnsigned(rest, sign)

\* float(value); ParseError stands for the TypeError / ValueError raised
ToFloat(v) ==
    CASE v.t = "str" -> ParseFloat(v.s)
      [] IsFloat(v) -> v
      [] v.t = "bigint" -> OverflowError
      [] OTHER -> ParseError

\* _is_valid(value) raises: its try catches TypeError and ValueError only
IsValidRaises(v) == v.t # "none" /\ ToFloat(v) = OverflowError

NaStrings == {<<"n","/","a">>, <<"n","a">>, <<"n","a","n">>}

IsValidNoLower(v) ==
    /\ v.t # "none"
    /\ ~(v.t = "str" /\ v.s \in NaStrings)
    /\ ToFloat(v) # ParseError

\* _is_valid
IsValid(v) ==
    /\ v.t # "none"
    /\ ~(v.t = "str" /\ Lower(v.s) \in NaStrings)
    /\ ToFloat(v) # ParseError

-----------------------------------------------------------------------------
(* Payloads and the hit classifier *)

MIN_CONTRIBUTING_EVENTS_FOR_HIT == 2

THROWBACK_MAX_EXIT_VELO == 60

THROWBACK_MIN_ANGLE_DEG == 10

THROWBACK_MAX_ANGLE_DEG == 20

\* pitch_data: "absent" is a missing, null or empty object (all read as {}),
\* "object" a JSON object, "array" a non-empty value that is no object
PitchData(shape, zone, rel, spin) ==
    [shape |-> shape, ZoneSpeedMPH |-> zone, RelSpeedMPH |-> rel, SpinRateRPM |-> spin]

NoPitch == PitchData("absent", None, None, None)

\* hit_data, with the shapes of pitch_data; an "object" is not empty
HitData(shape, exit, angle, dist, hang) ==
    [shape |-> shape, ExitSpeedMPH |-> exit, AngleDegrees |-> angle,
     DistanceFeet |-> dist, HangTimeSeconds |-> hang]

NoHit == HitData("absent", None, None, None, None)

\* a decoded frame: "object" is a JSON object, "array" any other JSON value;
\* contributing is the length of contributing_events
Payload(uuid, pitch, hit, n) ==
    [shape |-> "object", event_uuid |-> uuid, eventId |-> "<null>",
     pitch_data |-> pitch, hit_data |-> hit, contributing |-> n]

\* _looks_like_throwback
LooksLikeThrowback(hit_data) ==
    LET exit_velocity == hit_data.ExitSpeedMPH
        launch_angle == hit_data.AngleDegrees
    IN  /\ IsValid(exit_velocity) /\ IsValid(launch_angle)
        /\ FloatLt(ToFloat(exit_velocity), Num(THROWBACK_MAX_EXIT_VELO))
        /\ FloatLe(Num(THROWBACK_MIN_ANGLE_DEG), ToFloat(launch_angle))
        /\ FloatLe(ToFloat(launch_angle), Num(THROWBACK_MAX_ANGLE_DEG))

\* any(_is_valid(pitch_data.get(key)) for key in PITCH_METRIC_KEYS)
HasValidPitchMetrics(pitch_data) ==
    \/ IsValid(pitch_data.ZoneSpeedMPH)
    \/ IsValid(pitch_data.RelSpeedMPH)
    \/ IsValid(pitch_data.SpinRateRPM)

IsTrueHitExitFirst(hit_data, pitch_data, contributing) ==
    IF hit_data.shape = "absent" THEN FALSE
    ELSE IF IsValid(hit_data.ExitSpeedMPH) THEN TRUE
    ELSE IF LooksLikeThrowback(hit_data) THEN FALSE
    ELSE IF HasValidPitchMetrics(pitch_data) THEN TRUE
    ELSE contributing >= MIN_CONTRIBUTING_EVENTS_FOR_HIT

\* _is_true_hit
IsTrueHit(hit_data, pitch_data, contributing) ==
    IF hit_data.shape = "absent" THEN FALSE
    ELSE IF LooksLikeThrowback(hit_data) THEN FALSE
    ELSE IF IsValid(hit_data.ExitSpeedMPH) THEN TRUE
    ELSE IF HasValidPitchMetrics(pitch_data) THEN TRUE
    ELSE contributing >= MIN_CONTRIBUTING_EVENTS_FOR_HIT

-----------------------------------------------------------------------------
(* MetricAggregator *)

TRACKED_METRICS == <<"exit_velocity_mph", "launch_angle_deg", "pitch_velocity_mph",
                     "spin_rate_rpm", "hit_distance_ft", "hangtime_sec">>

Metrics == {TRACKED_METRICS[i] : i \in 1..Len(TRACKED_METRICS)}

STALE_TIMEOUT_SECONDS == 10

ROLLING_WINDOW_SECONDS == 1

MsPerSecond == 1000

\* a null event identifier / a null timestamp
NullId == "<null>"

NullTs == -1

NoEntry == [value |-> None, event_id |-> NullId, updated_at |-> NullTs]

EmptyBucket == [k \in Metrics |-> None]

NullSummary == [null |-> TRUE, event_id |-> NullId, m |-> EmptyBucket, updated_at |-> NullTs]

\* event_id or f"event-{int(time.time() * 1000)}"
EventKey(event_id, t) ==
    IF event_id # NullId /\ event_id # "" THEN event_id ELSE "event-" \o ToString(t)

\* val != 0
NonZero(val) == ~(val.t = "num" /\ val.m = 0)

\* _is_stale
IsStale(updated_at, t) ==
    updated_at = NullTs \/ t - updated_at > STALE_TIMEOUT_SECONDS * MsPerSecond

\* _summary_for
SummaryFor(event_id, bucket, ts) ==
    [null |-> FALSE, event_id |-> event_id, m |-> bucket, updated_at |-> ts]

\* a refresh that leaves alone an entry whose value the bucket repeats
UpdateLatestMetricsKeepSame(lm, summary) ==
    IF summary.event_id = NullId \/ summary.updated_at = NullTs THEN lm
    ELSE [k \in Metrics |->
            IF summary.m[k] # None /\ (lm[k] = NoEntry \/ lm[k].value # summary.m[k])
            THEN [value |-> summary.m[k], event_id |-> summary.event_id,
                  updated_at |-> summary.updated_at]
            ELSE lm[k]]

\* _update_latest_metrics
UpdateLatestMetrics(lm, summary) ==
    IF summary.event_id = NullId \/ summary.updated_at = NullTs THEN lm
    ELSE [k \in Metrics |->
            IF summary.m[k] # None
            THEN [value |-> summary.m[k], event_id |-> summary.event_id,
                  updated_at |-> summary.updated_at]
            ELSE lm[k]]

CleanupRollingBufferInclusive(rb, t) ==
    LET cutoff == t - ROLLING_WINDOW_SECONDS * MsPerSecond
        Fresh(sample) == sample.timestamp >= cutoff
    IN  [k \in Metrics |-> SelectSeq(rb[k], Fresh)]

\* _cleanup_rolling_buffer
CleanupRollingBuffer(rb, t) ==
    LET cutoff == t - ROLLING_WINDOW_SECONDS * MsPerSecond
        Fresh(sample) == sample.timestamp > cutoff
    IN  [k \in Metrics |-> SelectSeq(rb[k], Fresh)]

\* _get_recent_value
GetRecentValue(rb, metric) ==
    IF rb[metric] = <<>> THEN None ELSE rb[metric][Len(rb[metric])].value

CurrentSummaryNoStale(lm, leid, luts, t) ==
    [null |-> FALSE,
     event_id |-> leid,
     m |-> [k \in Metrics |-> IF lm[k] = NoEntry THEN None ELSE lm[k].value],
     updated_at |-> luts]

\* _current_summary
CurrentSummary(lm, leid, luts, t) ==
    [null |-> FALSE,
     event_id |-> leid,
     m |-> [k \in Metrics |->
              IF lm[k] = NoEntry THEN None
              ELSE IF IsStale(lm[k].updated_at, t) THEN None
              ELSE lm[k].value],
     updated_at |-> luts]

\* _purge_stale_metrics
PurgeStaleMetrics(lm, t) ==
    [k \in Metrics |-> IF lm[k] # NoEntry /\ ~IsStale(lm[k].updated_at, t) THEN lm[k] ELSE NoEntry]

\* the bucket of event_key, created empty when new (dict.setdefault)
BucketOf(evs, event_key) ==
    IF event_key \in DOMAIN evs THEN evs[event_key] ELSE EmptyBucket

StoreBucketAlone(evs, event_key, bucket) ==
    [k \in {event_key} |-> bucket]

\* events with the bucket of event_key replaced
StoreBucket(evs, event_key, bucket) ==
    [k \in DOMAIN evs \cup {event_key} |-> IF k = event_key THEN bucket ELSE evs[k]]

StoreReadingsErase(bucket, r) ==
    [k \in Metrics |-> IF IsValid(r[k]) THEN ToFloat(r[k]) ELSE None]

\* the loop of add_measurement over the six readings: the bucket after it
StoreReadings(bucket, r) ==
    [k \in Metrics |-> IF IsValid(r[k]) THEN ToFloat(r[k]) ELSE bucket[k]]

AppendSamplesWithZero(rb, r, t) ==
    [k \in Metrics |->
        IF IsValid(r[k])
        THEN Append(rb[k], [value |-> ToFloat(r[k]), timestamp |-> t])
        ELSE rb[k]]

\* the loop of add_measurement over the six readings: the rolling buffer after it
AppendSamples(rb, r, t) ==
    [k \in Metrics |->
        IF IsValid(r[k]) /\ NonZero(ToFloat(r[k]))
        THEN Append(rb[k], [value |-> ToFloat(r[k]), timestamp |-> t])
        ELSE rb[k]]

\* the check of line 208: the last update is older than the stale timeout
SummaryExpiredInclusive(luts, t) == t - luts >= STALE_TIMEOUT_SECONDS * MsPerSecond

SummaryExpired(luts, t) == t - luts > STALE_TIMEOUT_SECONDS * MsPerSecond

\* what a call of one operation leaves in ret: the operation, the time of the
\* call, the resolved event key and the readings (add_measurement), the result
Ret(op, key, r, val) ==
    [op |-> op, at |-> now, key |-> key, args |-> r, val |-> val, exc |-> "none"]

NoAccepted == [value |-> None, event_id |-> NullId]

\* an add_measurement that moves the latest update time only for a valid reading
AddMeasurementIfValid(event_id, r) ==
    LET event_key == EventKey(event_id, now)
        bucket == StoreReadings(BucketOf(events, event_key), r)
        summary == SummaryFor(event_key, bucket, now)
        lm == UpdateLatestMetrics(latest_metrics, summary)
    IN  /\ events' = StoreBucket(events, event_key, bucket)
        /\ rolling_buffer' = CleanupRollingBuffer(AppendSamples(rolling_buffer, r, now), now)
        /\ latest_event_id' = event_key
        /\ last_update_ts' = IF \E k \in Metrics : IsValid(r[k]) THEN now ELSE last_update_ts
        /\ latest_metrics' = lm
        /\ ret' = Ret("add_measurement", event_key, r, CurrentSummary(lm, event_key, now, now))
        /\ accepted' = [k \in Metrics |->
                          IF IsValid(r[k])
                          THEN [value |-> ToFloat(r[k]), event_id |-> event_key]
                          ELSE accepted[k]]

\* add_measurement(event_id, readings) at time now
AddMeasurement(event_id, r) ==
    LET event_key == EventKey(event_id, now)
        bucket == StoreReadings(BucketOf(events, event_key), r)
        summary == SummaryFor(event_key, bucket, now)
        lm == UpdateLatestMetrics(latest_metrics, summary)
    IN  /\ events' = StoreBucket(events, event_key, bucket)
        /\ rolling_buffer' = CleanupRollingBuffer(AppendSamples(rolling_buffer, r, now), now)
        /\ latest_event_id' = event_key
        /\ last_update_ts' = now
        /\ latest_metrics' = lm
        /\ ret' = Ret("add_measurement", event_key, r, CurrentSummary(lm, event_key, now, now))
        /\ accepted' = [k \in Metrics |->
                          IF IsValid(r[k])
                          THEN [value |-> ToFloat(r[k]), event_id |-> event_key]
                          ELSE accepted[k]]

\* the readings the loop of add_measurement handles before _is_valid raises on
\* the first reading that makes it raise (the loop follows TRACKED_METRICS' order)
ReadingsBeforeRaise(r) ==
    LET first == CHOOSE i \in 1..Len(TRACKED_METRICS) :
                    /\ IsValidRaises(r[TRACKED_METRICS[i]])
                    /\ \A j \in 1..(i - 1) : ~IsValidRaises(r[TRACKED_METRICS[j]])
    IN  [k \in Metrics |->
            IF \E j \in 1..(first - 1) : TRACKED_METRICS[j] = k THEN r[k] ELSE None]

\* add_measurement(event_id, readings) when _is_valid raises inside the loop:
\* the bucket exists and holds the readings stored so far, their samples are
\* appended, the exception leaves the `async with` block and the call
AddMeasurementRaises(event_id, r) ==
    LET event_key == EventKey(event_id, now)
        done == ReadingsBeforeRaise(r)
        bucket == StoreReadings(BucketOf(events, event_key), done)
    IN  /\ \E k \in Metrics : IsValidRaises(r[k])
        /\ events' = StoreBucket(events, event_key, bucket)
        /\ rolling_buffer' = AppendSamples(rolling_buffer, done, now)
        /\ ret' = [op |-> "add_measurement", at |-> now, key |-> event_key, args |-> r,
                   val |-> NullSummary, exc |-> "OverflowError"]
        /\ accepted' = [k \in Metrics |->
                          IF IsValid(done[k])
                          THEN [value |-> ToFloat(done[k]), event_id |-> event_key]
                          ELSE accepted[k]]
        /\ UNCHANGED <<latest_event_id, last_update_ts, latest_metrics>>

\* the early return of latest_summary: nothing was ever recorded
NeverUpdated ==
    \/ last_update_ts = NullTs \/ last_update_ts = 0
    \/ latest_event_id = NullId \/ latest_event_id = ""

\* what latest_summary() returns at time now
LatestSummaryResult ==
    IF NeverUpdated THEN NullSummary
    ELSE IF SummaryExpired(last_update_ts, now) THEN NullSummary
    ELSE CurrentSummary(PurgeStaleMetrics(latest_metrics, now), latest_event_id,
                        last_update_ts, now)

\* a latest_summary that empties the table it has reported
LatestSummaryDrains ==
    /\ ret' = Ret("latest_summary", NullId, EmptyBucket, LatestSummaryResult)
    /\ latest_metrics' = [k \in Metrics |-> NoEntry]
    /\ IF NeverUpdated
       THEN UNCHANGED rolling_buffer
       ELSE rolling_buffer' = CleanupRollingBuffer(rolling_buffer, now)
    /\ UNCHANGED <<events, latest_event_id, last_update_ts, accepted>>

\* latest_summary() at time now
LatestSummary ==
    /\ ret' = Ret("latest_summary", NullId, EmptyBucket, LatestSummaryResult)
    /\ IF NeverUpdated
       THEN UNCHANGED <<latest_metrics, rolling_buffer>>
       ELSE /\ latest_metrics' = PurgeStaleMetrics(latest_metrics, now)
            /\ rolling_buffer' = CleanupRollingBuffer(rolling_buffer, now)
    /\ UNCHANGED <<events, latest_event_id, last_update_ts, accepted>>

RollingSummaryOrNull ==
    IF NeverUpdated \/ SummaryExpired(last_update_ts, now) THEN NullSummary
    ELSE [null |-> FALSE, event_id |-> latest_event_id,
          m |-> [k \in Metrics |-> GetRecentValue(CleanupRollingBuffer(rolling_buffer, now), k)],
          updated_at |-> now]

\* what get_rolling_summary() returns at time now
RollingSummaryResult ==
    LET rb == CleanupRollingBuffer(rolling_buffer, now)
    IN  [null |-> FALSE, event_id |-> latest_event_id,
         m |-> [k \in Metrics |-> GetRecentValue(rb, k)],
         updated_at |-> now]

\* a get_rolling_summary that purges the table as latest_summary does
GetRollingSummaryPurges ==
    /\ rolling_buffer' = CleanupRollingBuffer(rolling_buffer, now)
    /\ latest_metrics' = PurgeStaleMetrics(latest_metrics, now)
    /\ ret' = Ret("get_rolling_summary", NullId, EmptyBucket, RollingSummaryResult)
    /\ UNCHANGED <<events, latest_event_id, last_update_ts, accepted>>

\* get_rolling_summary() at time now
GetRollingSummary ==
    /\ rolling_buffer' = CleanupRollingBuffer(rolling_buffer, now)
    /\ ret' = Ret("get_rolling_summary", NullId, EmptyBucket, RollingSummaryResult)
    /\ UNCHANGED <<events, latest_event_id, last_update_ts, latest_metrics, accepted>>

-----------------------------------------------------------------------------
(* process_payload *)

HitMetrics == {"exit_velocity_mph", "launch_angle_deg", "hit_distance_ft", "hangtime_sec"}

\* a or b on event identifiers
IdOr(a, b) == IF a # NullId /\ a # "" THEN a ELSE b

\* payload.get("pitch_data") or {}
PitchOf(p) == IF p.pitch_data.shape = "absent" THEN NoPitch ELSE p.pitch_data

\* payload.get("hit_data") or {}
HitOf(p) == IF p.hit_data.shape = "absent" THEN NoHit ELSE p.hit_data

\* process_payload raises AttributeError: payload, pitch_data or hit_data has no .get
PayloadRaises(p) ==
    \/ p.shape # "object"
    \/ p.pitch_data.shape = "array"
    \/ p.hit_data.shape = "array"

ProcessReadingsKeepHit(p) ==
    [k \in Metrics |->
        CASE k = "pitch_velocity_mph" -> PyOr(PitchOf(p).ZoneSpeedMPH, PitchOf(p).RelSpeedMPH)
          [] k = "spin_rate_rpm" -> PitchOf(p).SpinRateRPM
          [] k = "exit_velocity_mph" -> HitOf(p).ExitSpeedMPH
          [] k = "launch_angle_deg" -> HitOf(p).AngleDegrees
          [] k = "hit_distance_ft" -> HitOf(p).DistanceFeet
          [] k = "hangtime_sec" -> HitOf(p).HangTimeSeconds]

\* lines 320-327 of process_payload: the six readings handed to add_measurement
ProcessReadings(p) ==
    LET include_hit == IsTrueHit(HitOf(p), PitchOf(p), p.contributing)
    IN  [k \in Metrics |->
            CASE k = "pitch_velocity_mph" ->
                     PyOr(PitchOf(p).ZoneSpeedMPH, PitchOf(p).RelSpeedMPH)
              [] k = "spin_rate_rpm" -> PitchOf(p).SpinRateRPM
              [] k = "exit_velocity_mph" -> IF include_hit THEN HitOf(p).ExitSpeedMPH ELSE None
              [] k = "launch_angle_deg" -> IF include_hit THEN HitOf(p).AngleDegrees ELSE None
              [] k = "hit_distance_ft" -> IF include_hit THEN HitOf(p).DistanceFeet ELSE None
              [] k = "hangtime_sec" -> IF include_hit THEN HitOf(p).HangTimeSeconds ELSE None]

\* process_payload(payload, aggregator) when it does not raise
ProcessPayload(p) ==
    /\ ~PayloadRaises(p)
    /\ AddMeasurement(IdOr(p.event_uuid, p.eventId), ProcessReadings(p))
    /\ arg' = p

-----------------------------------------------------------------------------
(* The clock *)

\* the instants (epoch milliseconds) at which operations run: half a second, one,
\* two, ten and ten and a half seconds after the first
TimePoints == {1000, 1500, 2000, 3000, 11000, 11500}

StartMs == CHOOSE t \in TimePoints : \A u \in TimePoints : t <= u

\* time passes between two operations
Tick ==
    /\ \E t \in TimePoints : t > now /\ now' = t
    /\ UNCHANGED <<unread, concVars, aggVars, accepted, calls, ret, feedVars, pureVars>>

-----------------------------------------------------------------------------
(* The aggregator driven through its public methods *)

ArgEventIds == {NullId, "demo-001"}

PitchAndSpin ==
    [EmptyBucket EXCEPT !["pitch_velocity_mph"] = Dec(447, 1),
                        !["spin_rate_rpm"] = Dec(10314, 1)]

PitchAndExit ==
    [EmptyBucket EXCEPT !["pitch_velocity_mph"] = Dec(448, 1),
                        !["exit_velocity_mph"] = Dec(877, 1)]

InvalidReadings ==
    [EmptyBucket EXCEPT !["pitch_velocity_mph"] = Str(<<"N","a","N">>),
                        !["exit_velocity_mph"] = Str(<<"N","/","A">>),
                        !["spin_rate_rpm"] = Str(<<"a","b","c">>)]

ZeroExit == [EmptyBucket EXCEPT !["exit_velocity_mph"] = Num(0)]

ArgReadings == {PitchAndSpin, PitchAndExit, InvalidReadings, ZeroExit}

NoRet == [op |-> "none", at |-> NullTs, key |-> NullId, args |-> EmptyBucket,
          val |-> NullSummary, exc |-> "none"]

NoRes == [done |-> FALSE, val |-> FALSE]

Tasks == 1..MaxTasks

NoTask == 0

\* the table and buffers of a new aggregator
NoUnread ==
    [latest_metrics |-> [k \in Metrics |-> NoEntry],
     rolling_buffer |-> [k \in Metrics |-> <<>>]]

\* a task that has not called the aggregator yet
IdleTask ==
    [pc |-> "idle", op |-> "none", key |-> NullId, r |-> EmptyBucket, at |-> NullTs,
     val |-> NullSummary]

\* MetricAggregator.__init__, before any call
AggStart ==
    /\ tasks = [t \in Tasks |-> IdleTask]
    /\ lock = NoTask
    /\ order = <<>>
    /\ now = StartMs
    /\ events = <<>>
    /\ latest_event_id = NullId
    /\ last_update_ts = NullTs
    /\ latest_metrics = [k \in Metrics |-> NoEntry]
    /\ rolling_buffer = [k \in Metrics |-> <<>>]
    /\ accepted = [k \in Metrics |-> NoAccepted]
    /\ calls = 0
    /\ ret = NoRet
    /\ unread = NoUnread

NoFault == [n |-> 0, cause |-> "none", seen |-> {}]

\* n hooks registered, none dispatched yet
NoHookLog(n) == [n |-> n, frame |-> 0, invoked |-> <<>>, raised |-> {}, calls |-> 0]

\* no YakkerStreamer is running
FeedIdle ==
    /\ pc = "idle"
    /\ status = "idle"
    /\ wakeAt = NullTs
    /\ frames = 0
    /\ fault = NoFault
    /\ hookLog = NoHookLog(0)
    /\ frameLog = <<>>

AggInit ==
    /\ AggStart
    /\ FeedIdle
    /\ arg = None
    /\ res = NoRes

CallAddMeasurement ==
    /\ calls < MaxCalls
    /\ \E id \in ArgEventIds, r \in ArgReadings : AddMeasurement(id, r)
    /\ calls' = calls + 1
    /\ UNCHANGED <<unread, concVars, now, feedVars, pureVars>>

CallLatestSummary ==
    /\ LatestSummary
    /\ UNCHANGED <<unread, concVars, now, calls, feedVars, pureVars>>

CallRollingSummary ==
    /\ GetRollingSummary
    /\ UNCHANGED <<unread, concVars, now, calls, feedVars, pureVars>>

AggNext == CallAddMeasurement \/ CallLatestSummary \/ CallRollingSummary \/ Tick

SpecAgg == AggInit /\ [][AggNext]_vars

(* Sequences of add_measurement calls alone, one call longer, on two events *)

SeqEventIds == {"demo-001", "demo-002"}

SeqReadings == {PitchAndSpin, PitchAndExit, InvalidReadings}

CallAddMeasurementSeq ==
    /\ calls < MaxSeqCalls
    /\ \E id \in SeqEventIds, r \in SeqReadings : AddMeasurement(id, r)
    /\ calls' = calls + 1
    /\ UNCHANGED <<unread, concVars, now, feedVars, pureVars>>

AggSeqNext == CallAddMeasurementSeq \/ Tick

SpecAggSeq == AggInit /\ [][AggSeqNext]_vars

-----------------------------------------------------------------------------
(* The validity classifier applied to every enumerated reading *)

Alphabet == {"n", "a", "N", "A", "/", "4", ".", "-", " "}

StringsUpTo(n) == UNION {[1..k -> Alphabet] : k \in 0..n}

ValidInputs ==
    {None, Obj, NaN, Inf(1), Num(0), Dec(448, 1), Num(-5)}
        \cup {Str(cs) : cs \in StringsUpTo(MaxStrLen)}

ValidInit ==
    /\ AggStart
    /\ FeedIdle
    /\ arg \in ValidInputs
    /\ res = NoRes

ApplyIsValid ==
    /\ ~res.done
    /\ res' = [done |-> TRUE, val |-> IsValid(arg)]
    /\ UNCHANGED <<unread, concVars, now, aggVars, accepted, calls, ret, feedVars, arg>>

SpecValid == ValidInit /\ [][ApplyIsValid]_vars

(* The hit classifier applied to every enumerated observation *)

ExitInputs == {None, Num(55), Dec(599, 1), Num(60), Dec(959, 1), NaN,
               Str(<<"N","/","A">>), Str(<<"5","5",".","0">>)}

AngleInputs == {None, Dec(99, 1), Num(10), Num(15), Num(20), Dec(211, 1),
                Str(<<"n","a","n">>)}

PitchReadingInputs == {None, Dec(448, 1), Str(<<"N","a","N">>)}

HitInputs ==
    {NoHit} \cup {HitData("object", x, a, None, None) : x \in ExitInputs, a \in AngleInputs}

PitchInputs ==
    {NoPitch} \cup {PitchData("object", z, r, sp) :
                       z \in PitchReadingInputs, r \in PitchReadingInputs,
                       sp \in PitchReadingInputs}

HitInit ==
    /\ AggStart
    /\ FeedIdle
    /\ arg \in [hit_data : HitInputs, pitch_data : PitchInputs, contributing : 0..MaxContrib]
    /\ res = NoRes

ApplyIsTrueHit ==
    /\ ~res.done
    /\ res' = [done |-> TRUE, val |-> IsTrueHit(arg.hit_data, arg.pitch_data, arg.contributing)]
    /\ UNCHANGED <<unread, concVars, now, aggVars, accepted, calls, ret, feedVars, arg>>

SpecHit == HitInit /\ [][ApplyIsTrueHit]_vars

(* process_payload applied to sequences of payloads for one event *)

GenuineHit == HitData("object", Dec(877, 1), Dec(303, 1), Num(287), Dec(358, 2))

Throwback == HitData("object", Num(55), Num(15), Num(120), Dec(12, 1))

ThrowbackAsText ==
    HitData("object", Str(<<"5","5",".","0">>), Str(<<"2","0">>), Num(118), Dec(11, 1))

HitWithoutExit == HitData("object", None, Num(25), Num(200), Num(2))

PayloadHits == {NoHit, GenuineHit, Throwback, ThrowbackAsText, HitWithoutExit}

PayloadPitches ==
    { NoPitch,
      PitchData("object", Dec(448, 1), None, Dec(10733, 1)),
      PitchData("object", Str(<<"N","a","N">>), Dec(441, 1), Str(<<"N","/","A">>)) }

PayloadInputs ==
    {Payload("demo-001", pitch, hit, n) :
        pitch \in PayloadPitches, hit \in PayloadHits, n \in 0..MaxContrib}

CallProcessPayload ==
    /\ calls < MaxCalls
    /\ \E p \in PayloadInputs : ProcessPayload(p)
    /\ calls' = calls + 1
    /\ UNCHANGED <<unread, concVars, now, feedVars, res>>

SpecPayload == AggInit /\ [][CallProcessPayload]_vars

-----------------------------------------------------------------------------
(* The aggregator given readings as json.loads returns them *)

\* an exit velocity, then a pitch velocity written as a 400-digit integer
ExitAndBigPitch ==
    [EmptyBucket EXCEPT !["exit_velocity_mph"] = Dec(877, 1),
                        !["pitch_velocity_mph"] = BigInt]

JsonReadings == {PitchAndSpin, InvalidReadings, ExitAndBigPitch}

CallAddMeasurementJson ==
    /\ calls < MaxCalls
    /\ \E id \in ArgEventIds, r \in JsonReadings :
        /\ \A k \in Metrics : ~IsValidRaises(r[k])
        /\ AddMeasurement(id, r)
    /\ calls' = calls + 1
    /\ UNCHANGED <<unread, concVars, now, feedVars, pureVars>>

CallAddMeasurementRaises ==
    /\ calls < MaxCalls
    /\ \E id \in ArgEventIds, r \in JsonReadings : AddMeasurementRaises(id, r)
    /\ calls' = calls + 1
    /\ UNCHANGED <<unread, concVars, now, feedVars, pureVars>>

AggJsonNext ==
    \/ CallAddMeasurementJson \/ CallAddMeasurementRaises \/ CallLatestSummary \/ Tick

SpecAggJson == AggInit /\ [][AggJsonNext]_vars

-----------------------------------------------------------------------------
(* The aggregator beside one given the same calls and never read *)

\* add_measurement on the aggregator never read: lines 196-198 on its own table
\* and buffers; the buckets, the latest event and the latest update time are
\* those of the aggregator itself, which no read assigns
UnreadAddMeasurement(event_id, r) ==
    LET event_key == EventKey(event_id, now)
        bucket == StoreReadings(BucketOf(events, event_key), r)
        summary == SummaryFor(event_key, bucket, now)
    IN  unread' =
            [latest_metrics |-> UpdateLatestMetrics(unread.latest_metrics, summary),
             rolling_buffer |->
                CleanupRollingBuffer(AppendSamples(unread.rolling_buffer, r, now), now)]

\* what its latest_summary() would return at time now
UnreadLatestSummaryResult ==
    IF NeverUpdated THEN NullSummary
    ELSE IF SummaryExpired(last_update_ts, now) THEN NullSummary
    ELSE CurrentSummary(PurgeStaleMetrics(unread.latest_metrics, now), latest_event_id,
                        last_update_ts, now)

\* what its get_rolling_summary() would return at time now
UnreadRollingSummaryResult ==
    LET rb == CleanupRollingBuffer(unread.rolling_buffer, now)
    IN  [null |-> FALSE, event_id |-> latest_event_id,
         m |-> [k \in Metrics |-> GetRecentValue(rb, k)],
         updated_at |-> now]

CallAddMeasurementBoth ==
    /\ calls < MaxCalls
    /\ \E id \in SeqEventIds, r \in SeqReadings :
        /\ AddMeasurement(id, r)
        /\ UnreadAddMeasurement(id, r)
    /\ calls' = calls + 1
    /\ UNCHANGED <<concVars, now, feedVars, pureVars>>

AggBothNext ==
    CallAddMeasurementBoth \/ CallLatestSummary \/ CallRollingSummary \/ Tick

SpecAggBoth == AggInit /\ [][AggBothNext]_vars

-----------------------------------------------------------------------------
(* The aggregator called by concurrent tasks *)

\* the instants at which the tasks run, 1.1 seconds apart
ConcTimePoints == {1000, 2100}

ConcTick ==
    /\ \E t \in ConcTimePoints : t > now /\ now' = t
    /\ UNCHANGED <<unread, concVars, aggVars, accepted, calls, ret, feedVars, pureVars>>

\* the event id of task t's call: every task reports an event of its own
IdOf(t) == "demo-00" \o ToString(t)

ConcEventIds(t) == {IdOf(t)}

ConcReadings == {PitchAndSpin, PitchAndExit}

\* lines 161-162: the event key and the time are taken before the lock is
BeginAdd ==
    /\ \E t \in Tasks, r \in ConcReadings :
        /\ tasks[t].pc = "idle"
        /\ \E id \in ConcEventIds(t) :
            tasks' = [tasks EXCEPT ![t] =
                        [pc |-> "acquire", op |-> "add_measurement",
                         key |-> EventKey(id, now), r |-> r, at |-> now,
                         val |-> NullSummary]]
    /\ UNCHANGED <<unread, now, lock, order, aggVars, accepted, calls, ret, feedVars, pureVars>>

\* a call of latest_summary reaches its `async with self._lock`
BeginLatest ==
    /\ \E t \in Tasks :
        /\ tasks[t].pc = "idle"
        /\ tasks' = [tasks EXCEPT ![t].pc = "acquire", ![t].op = "latest_summary"]
    /\ UNCHANGED <<unread, now, lock, order, aggVars, accepted, calls, ret, feedVars, pureVars>>

\* a call of get_rolling_summary reaches its `async with self._lock`
BeginRolling ==
    /\ \E t \in Tasks :
        /\ tasks[t].pc = "idle"
        /\ tasks' = [tasks EXCEPT ![t].pc = "acquire", ![t].op = "get_rolling_summary"]
    /\ UNCHANGED <<unread, now, lock, order, aggVars, accepted, calls, ret, feedVars, pureVars>>

AcquireNoWait ==
    /\ \E t \in Tasks :
        /\ tasks[t].pc = "acquire"
        /\ lock' = t
        /\ order' = Append(order, t)
        /\ tasks' = [tasks EXCEPT ![t].pc = "locked"]
    /\ UNCHANGED <<unread, now, aggVars, accepted, calls, ret, feedVars, pureVars>>

\* async with self._lock: entered when no task holds the lock
Acquire ==
    /\ \E t \in Tasks :
        /\ tasks[t].pc = "acquire"
        /\ lock = NoTask
        /\ lock' = t
        /\ order' = Append(order, t)
        /\ tasks' = [tasks EXCEPT ![t].pc = "locked"]
    /\ UNCHANGED <<unread, now, aggVars, accepted, calls, ret, feedVars, pureVars>>

\* lines 164-192: the bucket is created or found, the valid readings are
\* stored in it and appended to the rolling buffer
StoreStep ==
    /\ \E t \in Tasks :
        LET c == tasks[t]
        IN  /\ c.pc = "locked"
            /\ c.op = "add_measurement"
            /\ events' = StoreBucket(events, c.key, StoreReadings(BucketOf(events, c.key), c.r))
            /\ rolling_buffer' = AppendSamples(rolling_buffer, c.r, c.at)
            /\ accepted' = [k \in Metrics |->
                              IF IsValid(c.r[k])
                              THEN [value |-> ToFloat(c.r[k]), event_id |-> c.key]
                              ELSE accepted[k]]
            /\ tasks' = [tasks EXCEPT ![t].pc = "publish"]
    /\ UNCHANGED <<unread, now, lock, order, latest_event_id, last_update_ts, latest_metrics,
                   calls, ret, feedVars, pureVars>>

LatestIdFirstWins(current, event_key) ==
    IF current # NullId THEN current ELSE event_key

\* line 194: the latest event id after a call for event_key
LatestId(current, event_key) == event_key

\* lines 194-199: the call becomes the latest, the table is refreshed from its
\* bucket, the rolling buffer is cleaned and the summary is computed
PublishStep ==
    /\ \E t \in Tasks :
        LET c == tasks[t]
            lm == UpdateLatestMetrics(latest_metrics, SummaryFor(c.key, events[c.key], c.at))
            leid == LatestId(latest_event_id, c.key)
            val == CurrentSummary(lm, leid, c.at, c.at)
        IN  /\ c.pc = "publish"
            /\ latest_event_id' = leid
            /\ last_update_ts' = c.at
            /\ latest_metrics' = lm
            /\ rolling_buffer' = CleanupRollingBuffer(rolling_buffer, c.at)
            /\ ret' = [op |-> c.op, at |-> c.at, key |-> c.key, args |-> c.r, val |-> val,
                       exc |-> "none"]
            /\ tasks' = [tasks EXCEPT ![t].pc = "release", ![t].val = val]
    /\ calls' = calls + 1
    /\ UNCHANGED <<unread, now, lock, order, events, accepted, feedVars, pureVars>>

\* lines 203-210, under the lock
ReadLatest ==
    /\ \E t \in Tasks :
        /\ tasks[t].pc = "locked"
        /\ tasks[t].op = "latest_summary"
        /\ tasks' = [tasks EXCEPT ![t].pc = "release", ![t].at = now,
                                  ![t].val = LatestSummaryResult]
    /\ LatestSummary
    /\ UNCHANGED <<unread, now, lock, order, calls, feedVars, pureVars>>

\* lines 231-242, under the lock
ReadRolling ==
    /\ \E t \in Tasks :
        /\ tasks[t].pc = "locked"
        /\ tasks[t].op = "get_rolling_summary"
        /\ tasks' = [tasks EXCEPT ![t].pc = "release", ![t].at = now,
                                  ![t].val = RollingSummaryResult]
    /\ GetRollingSummary
    /\ UNCHANGED <<unread, now, lock, order, calls, feedVars, pureVars>>

\* the end of `async with self._lock`
Release ==
    /\ \E t \in Tasks :
        /\ tasks[t].pc = "release"
        /\ lock' = NoTask
        /\ tasks' = [tasks EXCEPT ![t].pc = "done"]
    /\ UNCHANGED <<unread, now, order, aggVars, accepted, calls, ret, feedVars, pureVars>>

\* the steps a task takes once it has called the aggregator
ConcSteps ==
    \/ Acquire \/ StoreStep \/ PublishStep \/ ReadLatest \/ ReadRolling \/ Release

ConcNext ==
    \/ BeginAdd \/ BeginLatest \/ BeginRolling
    \/ Acquire \/ StoreStep \/ PublishStep \/ ReadLatest \/ ReadRolling \/ Release
    \/ ConcTick

\* the event loop runs a task that is ready
SpecConc == AggInit /\ [][ConcNext]_vars /\ WF_vars(ConcSteps)

-----------------------------------------------------------------------------
(* Properties of the aggregator *)

LastOf(seq) == seq[Len(seq)]

StaleMs == STALE_TIMEOUT_SECONDS * MsPerSecond

WindowMs == ROLLING_WINDOW_SECONDS * MsPerSecond

\* C1: a bucket field changes only in an add_measurement call for that event
\* whose reading for that metric is valid, and then to that reading; an invalid
\* reading (absent, "N/A" / "na" / "nan" in any case, non-numeric) leaves it
\* unchanged; a stored value never becomes null again and no bucket disappears.
C1_InvalidReadingKeepsBucket ==
    [][ /\ DOMAIN events \subseteq DOMAIN events'
        /\ \A key \in DOMAIN events', k \in Metrics :
             LET old == BucketOf(events, key)[k]
                 new == events'[key][k]
             IN  /\ old # None => new # None
                 /\ new # old => /\ ret'.op = "add_measurement"
                                 /\ ret'.key = key
                                 /\ IsValid(ret'.args[k])
                                 /\ new = ToFloat(ret'.args[k]) ]_vars

\* event demo-001 was fed the zone speed "NaN" and still holds 44.8
C1_Witness ==
    /\ ret.op = "add_measurement"
    /\ ret.key = "demo-001"
    /\ ret.args["pitch_velocity_mph"] = Str(<<"N","a","N">>)
    /\ events["demo-001"]["pitch_velocity_mph"] = Dec(448, 1)

\* C2 (with the boundary included): latest_summary returns null when nothing was ever recorded
\* and whenever 10 or more seconds have passed since the last add_measurement,
\* the age of exactly 10 seconds included.
C2_NullAtTenSecondsOrMore ==
    ret.op = "latest_summary" =>
        ( (last_update_ts = NullTs \/ ret.at - last_update_ts >= StaleMs)
          => ret.val.null )

\* C2 (amended): latest_summary returns null exactly when nothing was ever
\* recorded or more than 10 seconds have passed since the last add_measurement;
\* at an age of exactly 10 seconds it still returns a summary.
C2_NullAfterTenSeconds ==
    ret.op = "latest_summary" =>
        ( ret.val.null <=> (last_update_ts = NullTs \/ ret.at - last_update_ts > StaleMs) )

\* latest_summary called exactly 10 seconds after the last add_measurement
C2_Witness ==
    /\ ret.op = "latest_summary"
    /\ last_update_ts # NullTs
    /\ ret.at - last_update_ts = StaleMs
    /\ ~ret.val.null

\* C3: in a summary returned by latest_summary or add_measurement a metric is
\* non-null only if its own table entry exists, was updated within the last 10
\* seconds and holds that value; an entry older than that is reported as null.
C3_OnlyFreshMetricsReported ==
    (ret.op \in {"latest_summary", "add_measurement"} /\ ~ret.val.null) =>
        \A k \in Metrics :
            /\ ret.val.m[k] # None =>
                   /\ latest_metrics[k] # NoEntry
                   /\ ret.at - latest_metrics[k].updated_at <= StaleMs
                   /\ ret.val.m[k] = latest_metrics[k].value
            /\ (latest_metrics[k] # NoEntry /\ ret.at - latest_metrics[k].updated_at > StaleMs)
                   => ret.val.m[k] = None

\* a summary that hides the spin rate once accepted and reports the pitch velocity
C3_Witness ==
    /\ ret.op = "latest_summary"
    /\ ~ret.val.null
    /\ accepted["spin_rate_rpm"].value # None
    /\ ret.val.m["spin_rate_rpm"] = None
    /\ ret.val.m["pitch_velocity_mph"] # None

\* C4: get_rolling_summary reports for a metric only the last sample of its
\* buffer, accepted less than 1.0 second before the call; and 2 seconds after a
\* single add_measurement call every metric it accepted is null in the rolling
\* summary while latest_summary at that instant still reports it.
C4_RollingWithinWindow ==
    /\ ret.op = "get_rolling_summary" =>
         \A k \in Metrics :
             ret.val.m[k] # None =>
                 /\ rolling_buffer[k] # <<>>
                 /\ LastOf(rolling_buffer[k]).value = ret.val.m[k]
                 /\ ret.at - LastOf(rolling_buffer[k]).timestamp < WindowMs
    /\ (calls = 1 /\ now - last_update_ts = 2 * MsPerSecond) =>
         \A k \in Metrics :
             accepted[k].value # None =>
                 /\ RollingSummaryResult.m[k] = None
                 /\ ~LatestSummaryResult.null
                 /\ LatestSummaryResult.m[k] = accepted[k].value

\* get_rolling_summary 2 seconds after the only reading of the pitch velocity
C4_Witness ==
    /\ ret.op = "get_rolling_summary"
    /\ calls = 1
    /\ now = ret.at
    /\ ret.at - last_update_ts = 2 * MsPerSecond
    /\ accepted["pitch_velocity_mph"].value # None
    /\ ret.val.m["pitch_velocity_mph"] = None
    /\ LatestSummaryResult.m["pitch_velocity_mph"] = accepted["pitch_velocity_mph"].value

\* C8: every Latest-Metrics Table entry holds the value and the event id of the
\* most recently accepted valid reading of its metric across all events.
C8_TableHoldsMostRecentAccepted ==
    \A k \in Metrics :
        latest_metrics[k] # NoEntry =>
            /\ latest_metrics[k].value = accepted[k].value
            /\ latest_metrics[k].event_id = accepted[k].event_id

-----------------------------------------------------------------------------
(* YakkerStreamer.run *)

\* asyncio.sleep(3)
RetrySleepSeconds == 3

\* the instants (epoch milliseconds) at which the run loop is scheduled
FeedTimePoints == {1000, 2000, 4000, 5000, 8000}

FeedTick ==
    /\ \E t \in FeedTimePoints : t > now /\ now' = t
    /\ UNCHANGED <<unread, concVars, aggVars, accepted, calls, ret, feedVars, pureVars>>

\* the handler of ClientConnectorError (lines 415-419)
OnClientConnectorError ==
    /\ status' = "disconnected"
    /\ wakeAt' = now + RetrySleepSeconds * MsPerSecond
    /\ pc' = "sleep"
    /\ fault' = [n |-> fault.n + 1, cause |-> "ClientConnectorError", seen |-> fault.seen \cup {"ClientConnectorError"}]

OnExceptionNoSleep ==
    /\ status' = "disconnected"
    /\ wakeAt' = now
    /\ pc' = "sleep"
    /\ fault' = [n |-> fault.n + 1, cause |-> "Exception", seen |-> fault.seen \cup {"Exception"}]

\* the handler of any other Exception (lines 420-424)
OnException ==
    /\ status' = "disconnected"
    /\ wakeAt' = now + RetrySleepSeconds * MsPerSecond
    /\ pc' = "sleep"
    /\ fault' = [n |-> fault.n + 1, cause |-> "Exception", seen |-> fault.seen \cup {"Exception"}]

\* the top of `while True`: status is set to connecting and ws_connect is entered
StartConnecting ==
    /\ pc = "loop"
    /\ status' = "connecting"
    /\ pc' = "ws_connect"
    /\ UNCHANGED <<unread, concVars, now, aggVars, accepted, calls, ret, wakeAt, frames, fault, hookLog, frameLog, pureVars>>

\* session.ws_connect succeeds
ConnectOk ==
    /\ pc = "ws_connect"
    /\ status' = "connected"
    /\ pc' = "receive"
    /\ UNCHANGED <<unread, concVars, now, aggVars, accepted, calls, ret, wakeAt, frames, fault, hookLog, frameLog, pureVars>>

\* session.ws_connect raises ClientConnectorError
ConnectRefused ==
    /\ pc = "ws_connect"
    /\ OnClientConnectorError
    /\ UNCHANGED <<unread, concVars, now, aggVars, accepted, calls, ret, frames, hookLog, frameLog, pureVars>>

\* session.ws_connect raises another exception (a failed handshake, a bad URL)
ConnectRaises ==
    /\ pc = "ws_connect"
    /\ OnException
    /\ UNCHANGED <<unread, concVars, now, aggVars, accepted, calls, ret, frames, hookLog, frameLog, pureVars>>

WellFormed ==
    Payload("demo-001", PitchData("object", Dec(447, 1), None, Dec(10314, 1)),
            HitData("object", Dec(879, 1), Dec(303, 1), Num(287), Dec(358, 2)), 0)

\* pitch_data is a JSON array
PitchNotAnObject ==
    Payload("demo-002", PitchData("array", None, None, None), NoHit, 0)

\* the frame decodes to a JSON array
NotAnObject ==
    [shape |-> "array", event_uuid |-> NullId, eventId |-> NullId,
     pitch_data |-> NoPitch, hit_data |-> NoHit, contributing |-> 0]

\* hit_data is a JSON array
HitNotAnObject ==
    Payload("demo-002", NoPitch, HitData("array", None, None, None, None), 0)

FeedPayloads ==
    {WellFormed, Payload("demo-001", NoPitch, Throwback, 2),
     PitchNotAnObject, HitNotAnObject, NotAnObject}

DispatchStopsAtRaise(n, raises) ==
    IF \E i \in 1..n : i \in raises
    THEN [i \in 1..(CHOOSE j \in 1..n : j \in raises /\ \A k \in 1..(j - 1) : k \notin raises) |-> i]
    ELSE [i \in 1..n |-> i]

\* _dispatch_payload_hooks: the hooks it invokes, in order, when those of `raises` raise
DispatchPayloadHooks(n, raises) ==
    [i \in 1..n |-> i]

\* the dispatch of one payload, made before process_payload is called
HooksRun(raises) ==
    hookLog' = [n |-> hookLog.n, frame |-> frames + 1,
                invoked |-> DispatchPayloadHooks(hookLog.n, raises),
                raised |-> raises \cap {DispatchPayloadHooks(hookLog.n, raises)[i] : i \in 1..Len(DispatchPayloadHooks(hookLog.n, raises))},
                calls |-> calls]

\* a TEXT message whose data decodes and is processed
ReceiveText ==
    /\ pc = "receive"
    /\ frames < MaxFrames
    /\ \E raises \in SUBSET (1..hookLog.n) : HooksRun(raises)
    /\ \E p \in FeedPayloads : ProcessPayload(p)
    /\ calls' = calls + 1
    /\ frames' = frames + 1
    /\ frameLog' = Append(frameLog, "text")
    /\ UNCHANGED <<unread, concVars, now, pc, status, wakeAt, fault, res>>

\* a TEXT message whose data decodes and makes process_payload raise
ReceiveTextRaises ==
    /\ pc = "receive"
    /\ frames < MaxFrames
    /\ \E raises \in SUBSET (1..hookLog.n) : HooksRun(raises)
    /\ \E p \in FeedPayloads : PayloadRaises(p) /\ arg' = p
    /\ OnException
    /\ frames' = frames + 1
    /\ frameLog' = Append(frameLog, "text")
    /\ UNCHANGED <<unread, concVars, now, aggVars, accepted, calls, ret, res>>

ReceiveBadJsonDisconnects ==
    /\ pc = "receive"
    /\ frames < MaxFrames
    /\ frames' = frames + 1
    /\ frameLog' = Append(frameLog, "badjson")
    /\ OnException
    /\ UNCHANGED <<unread, concVars, now, aggVars, accepted, calls, ret, hookLog, pureVars>>

\* a TEXT message whose data is not JSON: json.JSONDecodeError is caught in the loop
ReceiveBadJson ==
    /\ pc = "receive"
    /\ frames < MaxFrames
    /\ frames' = frames + 1
    /\ frameLog' = Append(frameLog, "badjson")
    /\ UNCHANGED <<unread, concVars, now, aggVars, accepted, calls, ret, pc, status, wakeAt, fault, hookLog, pureVars>>

\* a message of type ERROR: break, and the loop starts over
ReceiveError ==
    /\ pc = "receive"
    /\ frames < MaxFrames
    /\ frames' = frames + 1
    /\ frameLog' = Append(frameLog, "error")
    /\ pc' = "loop"
    /\ UNCHANGED <<unread, concVars, now, aggVars, accepted, calls, ret, status, wakeAt, fault, hookLog, pureVars>>

\* a close frame: the message stream ends (or a CLOSED message breaks the loop)
ReceiveClosed ==
    /\ pc = "receive"
    /\ frames < MaxFrames
    /\ frames' = frames + 1
    /\ frameLog' = Append(frameLog, "closed")
    /\ pc' = "loop"
    /\ UNCHANGED <<unread, concVars, now, aggVars, accepted, calls, ret, status, wakeAt, fault, hookLog, pureVars>>

\* receiving the next message raises
ReceiveRaises ==
    /\ pc = "receive"
    /\ OnException
    /\ UNCHANGED <<unread, concVars, now, aggVars, accepted, calls, ret, frames, hookLog, frameLog, pureVars>>

WakeGiveUp ==
    /\ pc = "sleep"
    /\ now >= wakeAt
    /\ pc' = IF fault.n >= 2 THEN "returned" ELSE "loop"
    /\ UNCHANGED <<unread, concVars, now, aggVars, accepted, calls, ret, status, wakeAt, frames, fault, hookLog, frameLog, pureVars>>

\* asyncio.sleep(3) returns and `continue` goes back to the top of the loop
Wake ==
    /\ pc = "sleep"
    /\ now >= wakeAt
    /\ pc' = "loop"
    /\ UNCHANGED <<unread, concVars, now, aggVars, accepted, calls, ret, status, wakeAt, frames, fault, hookLog, frameLog, pureVars>>

FeedInit ==
    /\ AggStart
    /\ pc = "loop"
    /\ status = "starting"
    /\ wakeAt = NullTs
    /\ frames = 0
    /\ fault = NoFault
    /\ \E n \in 0..MaxHooks : hookLog = NoHookLog(n)
    /\ frameLog = <<>>
    /\ arg = None
    /\ res = NoRes

FeedNext ==
    \/ StartConnecting \/ ConnectOk \/ ConnectRefused \/ ConnectRaises
    \/ ReceiveText \/ ReceiveTextRaises \/ ReceiveBadJson \/ ReceiveError
    \/ ReceiveClosed \/ ReceiveRaises \/ Wake \/ FeedTick

SpecFeed == FeedInit /\ [][FeedNext]_vars

-----------------------------------------------------------------------------
(* YakkerStreamer.run as a task of the event loop, until it is cancelled *)

\* the instants at which the task is scheduled: one every sleep length
LiveTimePoints ==
    {StartMs + k * RetrySleepSeconds * MsPerSecond : k \in 0..MaxRetries}

\* the last instant followed
LastLiveMs == StartMs + MaxRetries * RetrySleepSeconds * MsPerSecond

\* a failure is followed only if the end of its sleep is an instant followed
CanRetry == now + RetrySleepSeconds * MsPerSecond <= LastLiveMs

LiveTick ==
    /\ \E t \in LiveTimePoints : t > now /\ now' = t
    /\ UNCHANGED <<unread, concVars, aggVars, accepted, calls, ret, feedVars, pureVars>>

\* a handler of run() that would catch the CancelledError as it catches an Exception
CancelSwallowed ==
    /\ pc \in {"loop", "ws_connect", "receive", "sleep"}
    /\ status' = "disconnected"
    /\ wakeAt' = now + RetrySleepSeconds * MsPerSecond
    /\ pc' = "sleep"
    /\ fault' = [n |-> fault.n, cause |-> "CancelledError",
                 seen |-> fault.seen \cup {"CancelledError"}]
    /\ UNCHANGED <<unread, concVars, now, aggVars, accepted, calls, ret, frames, hookLog, frameLog, pureVars>>

\* feed_task.cancel(): CancelledError is not an Exception, no handler of run() catches it
Cancel ==
    /\ pc \in {"loop", "ws_connect", "receive", "sleep"}
    /\ pc' = "cancelled"
    /\ UNCHANGED <<unread, concVars, now, aggVars, accepted, calls, ret, status, wakeAt, frames, fault, hookLog, frameLog, pureVars>>

LiveNext ==
    \/ StartConnecting
    \/ ConnectOk
    \/ (CanRetry /\ ConnectRefused)
    \/ (CanRetry /\ ConnectRaises)
    \/ ReceiveText
    \/ (CanRetry /\ ReceiveTextRaises)
    \/ ReceiveBadJson
    \/ ReceiveError
    \/ ReceiveClosed
    \/ (CanRetry /\ ReceiveRaises)
    \/ Wake
    \/ Cancel
    \/ LiveTick

\* main() starts the streamer without payload hooks
LiveInit ==
    /\ AggStart
    /\ pc = "loop"
    /\ status = "starting"
    /\ wakeAt = NullTs
    /\ frames = 0
    /\ fault = NoFault
    /\ hookLog = NoHookLog(0)
    /\ frameLog = <<>>
    /\ arg = None
    /\ res = NoRes

\* the event loop runs a task that is ready, and time passes
SpecFeedLive ==
    /\ LiveInit
    /\ [][LiveNext]_vars
    /\ WF_vars(StartConnecting)
    /\ WF_vars(Wake)
    /\ WF_vars(LiveTick)

-----------------------------------------------------------------------------
(* demo_feed, and the same samples as frames of the live feed *)

\* POLL_INTERVAL_SECONDS, by default
POLL_INTERVAL_SECONDS == 1

\* the samples of demo_feed, Python literals
DemoSamples ==
    << Payload("demo-001", PitchData("object", Dec(447, 1), None, Dec(10314, 1)),
               HitData("object", Dec(879, 1), Dec(303, 1), Dec(2870, 1), Dec(358, 2)), 0),
       Payload("demo-001", PitchData("object", Dec(448, 1), None, Dec(10733, 1)),
               HitData("object", Dec(877, 1), Dec(303, 1), Dec(2870, 1), Dec(358, 2)), 0),
       Payload("demo-002", PitchData("object", Dec(458, 1), None, Dec(11236, 1)),
               HitData("object", Dec(959, 1), Dec(211, 1), Dec(3218, 1), Dec(359, 2)), 0) >>

\* the sample list is never advanced
DemoSampleStuck(i) == DemoSamples[1]

\* the sample of the i-th emission, counted from 0: `while True: for sample in samples`
DemoSampleAt(i) == DemoSamples[(i % Len(DemoSamples)) + 1]

\* the text of the numbers of the same samples, as a websocket frame carries them
DemoFrames ==
    << [event_uuid |-> "demo-001",
        ZoneSpeedMPH |-> <<"4","4",".","7">>, SpinRateRPM |-> <<"1","0","3","1",".","4">>,
        ExitSpeedMPH |-> <<"8","7",".","9">>, AngleDegrees |-> <<"3","0",".","3">>,
        DistanceFeet |-> <<"2","8","7",".","0">>, HangTimeSeconds |-> <<"3",".","5","8">>],
       [event_uuid |-> "demo-001",
        ZoneSpeedMPH |-> <<"4","4",".","8">>, SpinRateRPM |-> <<"1","0","7","3",".","3">>,
        ExitSpeedMPH |-> <<"8","7",".","7">>, AngleDegrees |-> <<"3","0",".","3">>,
        DistanceFeet |-> <<"2","8","7",".","0">>, HangTimeSeconds |-> <<"3",".","5","8">>],
       [event_uuid |-> "demo-002",
        ZoneSpeedMPH |-> <<"4","5",".","8">>, SpinRateRPM |-> <<"1","1","2","3",".","6">>,
        ExitSpeedMPH |-> <<"9","5",".","9">>, AngleDegrees |-> <<"2","1",".","1">>,
        DistanceFeet |-> <<"3","2","1",".","8">>, HangTimeSeconds |-> <<"3",".","5","9">>] >>

\* json.loads(message.data) on such a frame: each number with a fraction is
\* converted by float(), a key the frame does not have is absent
JsonLoads(f) ==
    Payload(f.event_uuid,
            PitchData("object", ParseFloat(f.ZoneSpeedMPH), None, ParseFloat(f.SpinRateRPM)),
            HitData("object", ParseFloat(f.ExitSpeedMPH), ParseFloat(f.AngleDegrees),
                    ParseFloat(f.DistanceFeet), ParseFloat(f.HangTimeSeconds)),
            0)

\* the instants at which the demo task is scheduled
DemoTimePoints ==
    {StartMs + k * POLL_INTERVAL_SECONDS * MsPerSecond : k \in 0..MaxDemoFrames}

DemoTick ==
    /\ \E t \in DemoTimePoints : t > now /\ now' = t
    /\ UNCHANGED <<unread, concVars, aggVars, accepted, calls, ret, feedVars, pureVars>>

\* status["connection"] = "demo" (line 434)
DemoStart ==
    /\ pc = "demo_start"
    /\ status' = "demo"
    /\ pc' = "demo_emit"
    /\ UNCHANGED <<unread, concVars, now, aggVars, accepted, calls, ret, wakeAt, frames, fault, hookLog, frameLog, pureVars>>

\* one turn of the for loop up to its sleep (lines 454-456)
DemoEmit ==
    /\ pc = "demo_emit"
    /\ frames < MaxDemoFrames
    /\ \E raises \in SUBSET (1..hookLog.n) : HooksRun(raises)
    /\ ProcessPayload(DemoSampleAt(frames))
    /\ calls' = calls + 1
    /\ frames' = frames + 1
    /\ wakeAt' = now + POLL_INTERVAL_SECONDS * MsPerSecond
    /\ pc' = "demo_sleep"
    /\ UNCHANGED <<unread, concVars, now, status, fault, frameLog, res>>

\* asyncio.sleep(POLL_INTERVAL_SECONDS) returns
DemoWake ==
    /\ pc = "demo_sleep"
    /\ now >= wakeAt
    /\ pc' = "demo_emit"
    /\ UNCHANGED <<unread, concVars, now, aggVars, accepted, calls, ret, status, wakeAt, frames, fault, hookLog, frameLog, pureVars>>

\* feed_task.cancel() on the demo task
DemoCancel ==
    /\ pc \in {"demo_start", "demo_emit", "demo_sleep"}
    /\ pc' = "cancelled"
    /\ UNCHANGED <<unread, concVars, now, aggVars, accepted, calls, ret, status, wakeAt, frames, fault, hookLog, frameLog, pureVars>>

\* main() and run_cli() start the demo task with no hook or with one
DemoInit ==
    /\ AggStart
    /\ pc = "demo_start"
    /\ status = "starting"
    /\ wakeAt = NullTs
    /\ frames = 0
    /\ fault = NoFault
    /\ \E n \in 0..MaxHooks : hookLog = NoHookLog(n)
    /\ frameLog = <<>>
    /\ arg = None
    /\ res = NoRes

DemoNext == DemoStart \/ DemoEmit \/ DemoWake \/ DemoCancel \/ DemoTick

SpecDemo == DemoInit /\ [][DemoNext]_vars

-----------------------------------------------------------------------------
(* Properties of the classifiers and of process_payload *)

UpperChar(c) ==
    IF \E i \in 1..26 : LowerCase[i] = c
    THEN UpperCase[CHOOSE i \in 1..26 : LowerCase[i] = c]
    ELSE c

\* cs is the word w with each letter in either case
IsCaseVariant(cs, w) ==
    /\ Len(cs) = Len(w)
    /\ \A i \in 1..Len(w) : cs[i] = w[i] \/ cs[i] = UpperChar(w[i])

NotAvailableWords == {<<"n","/","a">>, <<"n","a">>, <<"n","a","n">>}

\* a throwback by its definition: a valid exit speed strictly below 60 and
\* a valid launch angle in [10, 20]
ThrowbackBand(hit) ==
    /\ IsValid(hit.ExitSpeedMPH) /\ IsValid(hit.AngleDegrees)
    /\ FloatLt(ToFloat(hit.ExitSpeedMPH), Num(60))
    /\ FloatLe(Num(10), ToFloat(hit.AngleDegrees))
    /\ FloatLe(ToFloat(hit.AngleDegrees), Num(20))

C6_IsGenuineHitChain ==
    res.done =>
        LET hit == arg.hit_data
            pitch == arg.pitch_data
            chain ==
                IF hit.shape = "absent" THEN FALSE
                ELSE IF ThrowbackBand(hit) THEN FALSE
                ELSE IF IsValid(hit.ExitSpeedMPH) THEN TRUE
                ELSE IF \E v \in {pitch.ZoneSpeedMPH, pitch.RelSpeedMPH, pitch.SpinRateRPM} :
                            IsValid(v)
                THEN TRUE
                ELSE arg.contributing >= 2
        IN  /\ res.val = chain
            /\ (hit.shape = "object" /\ hit.ExitSpeedMPH = Dec(959, 1)) => res.val
            /\ (hit.ExitSpeedMPH = Num(55) /\ hit.AngleDegrees = Num(15)) => ~res.val

\* a hit without exit speed and without pitch metrics, with two contributing ids
C6_Witness ==
    /\ res.done
    /\ arg.hit_data.shape = "object"
    /\ arg.hit_data.ExitSpeedMPH = None
    /\ arg.pitch_data = NoPitch
    /\ arg.contributing = 2
    /\ res.val

-----------------------------------------------------------------------------
(* Properties of YakkerStreamer.run *)

BackoffMs == RetrySleepSeconds * MsPerSecond

\* C9: when the consumer is connected and the receive loop ends on an error
\* frame, a close frame or the end of the message stream, the state is set to
\* disconnected and the 3 second sleep is entered; the state never goes from
\* connected to connecting directly.
C9_EndOfStreamDisconnects ==
    /\ [][(status = "connected" /\ pc = "receive" /\ pc' # "receive")
            => (status' = "disconnected" /\ pc' = "sleep" /\ wakeAt' = now + BackoffMs)]_vars
    /\ [][~(status = "connected" /\ status' = "connecting")]_vars

\* C10: every caught exception (a failed ws_connect or an exception inside the
\* receive loop) sets the state to disconnected and starts a sleep that ends
\* 3 seconds later, whatever the cause and however many failures came before;
\* the state stays disconnected during the sleep, the sleep is left only once
\* the 3 seconds have elapsed, and the loop then sets the state to connecting
\* and attempts ws_connect again.
C10_FailureBacksOffThreeSeconds ==
    [][ /\ (fault' # fault)
            => (status' = "disconnected" /\ pc' = "sleep" /\ wakeAt' = now + BackoffMs)
        /\ (pc = "ws_connect" /\ pc' \notin {"ws_connect", "receive"})
            => (fault'.n = fault.n + 1)
        /\ (pc = "sleep")
            => (status = "disconnected" /\ status' = "disconnected")
        /\ (pc = "sleep" /\ pc' # "sleep")
            => (now >= wakeAt /\ pc' = "loop")
        /\ (pc = "loop" /\ pc' # "loop")
            => (status' = "connecting" /\ pc' = "ws_connect") ]_vars

\* a connection attempt made after two failures of different causes, the second
\* one raised inside the receive loop, each followed by its 3 second sleep
C10_Witness ==
    /\ fault.n = 2
    /\ fault.seen = {"ClientConnectorError", "Exception"}
    /\ fault.cause = "Exception"
    /\ frames > 0
    /\ status = "connecting"
    /\ pc = "ws_connect"
    /\ now >= wakeAt

\* C11: run() has no exit of its own: it is always at the top of the loop, in
\* ws_connect, in the receive loop or in the sleep of a handler, unless it was
\* cancelled; and after every caught failure, the first as well as the
\* MaxRetries-th, and after every end of the receive loop, it reaches ws_connect
\* again (with the state connecting) unless it is cancelled first.
C11_RetriesForever ==
    /\ [](pc \in {"loop", "ws_connect", "receive", "sleep", "cancelled"})
    /\ [][pc' = "cancelled" => pc = "cancelled" \/ (status' = status /\ fault' = fault)]_vars
    /\ \A k \in 1..MaxRetries :
        (fault.n = k /\ pc = "sleep") ~> ((fault.n = k /\ pc = "ws_connect" /\ status = "connecting")
                            \/ pc = "cancelled")
    /\ (pc = "loop") ~> ((pc = "ws_connect" /\ status = "connecting") \/ pc = "cancelled")

\* the connection attempt that follows the MaxRetries-th failure in a row
C11_Witness ==
    /\ fault.n = MaxRetries
    /\ pc = "ws_connect"
    /\ status = "connecting"
    /\ now = LastLiveMs

\* C12: a text frame that is not JSON is skipped: no payload hook is invoked and
\* add_measurement is not called for it, the aggregator is left as it was, no
\* handler of run() is entered, the state stays connected and the receive loop
\* goes on with the same websocket.
C12_BadJsonSkipped ==
    [][(Len(frameLog') > Len(frameLog) /\ LastOf(frameLog') = "badjson")
        => /\ aggVars' = aggVars
           /\ accepted' = accepted
           /\ calls' = calls
           /\ hookLog' = hookLog
           /\ fault' = fault
           /\ status = "connected" /\ status' = "connected"
           /\ pc = "receive" /\ pc' = "receive"]_vars

\* a frame that is not JSON, then a payload dispatched to the hooks and
\* processed on the same connection
C12_Witness ==
    /\ frameLog = <<"badjson", "text">>
    /\ fault.n = 0
    /\ status = "connected"
    /\ pc = "receive"
    /\ calls = 1
    /\ hookLog.n > 0
    /\ hookLog.frame = 2
    /\ latest_event_id = "demo-001"

\* a decoded frame that is not a well-formed feed message: the top level is not
\* an object, or pitch_data or hit_data is present and is not an object
Malformed(p) ==
    \/ p.shape # "object"
    \/ p.pitch_data.shape \notin {"absent", "object"}
    \/ p.hit_data.shape \notin {"absent", "object"}

\* C13: a text frame that decodes to a malformed payload is skipped with the
\* connection preserved: the state stays connected, no handler of run() is
\* entered and the receive loop goes on with the same websocket.
C13_MalformedPayloadSkipped ==
    [][(Len(frameLog') > Len(frameLog) /\ LastOf(frameLog') = "text" /\ Malformed(arg'))
        => /\ status' = "connected"
           /\ pc' = "receive"
           /\ fault' = fault]_vars

\* C14: for every decoded payload every registered hook is invoked, in order,
\* before add_measurement is called for it; whichever hooks raise, the
\* remaining ones are still invoked, add_measurement is still called for a
\* well-formed payload, no handler of run() is entered and the state stays
\* connected.
C14_HooksNeverAffectIngestion ==
    [][(Len(frameLog') > Len(frameLog) /\ LastOf(frameLog') = "text")
        => /\ hookLog'.frame = Len(frameLog')
           /\ hookLog'.invoked = [i \in 1..hookLog.n |-> i]
           /\ hookLog'.calls = calls
           /\ ~Malformed(arg')
                => /\ calls' = calls + 1
                   /\ ret'.op = "add_measurement"
                   /\ ret'.key = arg'.event_uuid
                   /\ fault' = fault
                   /\ status' = "connected"
                   /\ pc' = "receive"]_vars

\* the first of two hooks raised; the second was invoked and the payload was
\* passed to add_measurement on a connection that stays up
C14_Witness ==
    /\ hookLog.n = 2
    /\ hookLog.raised = {1}
    /\ hookLog.invoked = <<1, 2>>
    /\ hookLog.frame = Len(frameLog)
    /\ calls = hookLog.calls + 1
    /\ ret.op = "add_measurement"
    /\ ret.key = "demo-001"
    /\ fault.n = 0
    /\ status = "connected"
    /\ pc = "receive"

-----------------------------------------------------------------------------
(* Properties of the aggregator under concurrent calls *)

\* every task has completed a call of add_measurement, each for its own event
AllAddsDone ==
    /\ \A t \in Tasks : tasks[t].op = "add_measurement" /\ tasks[t].pc = "done"
    /\ \A t, u \in Tasks : t # u => tasks[t].key # tasks[u].key

\* C15: after concurrent add_measurement calls for distinct events have all
\* completed, every call's bucket exists and holds exactly the valid readings
\* of that call, and the table entry of every metric supplied by some call is
\* the value, the event id and the time of one single call that supplied it.
C15_NoLostUpdate ==
    AllAddsDone =>
        /\ \A t \in Tasks :
            /\ tasks[t].key \in DOMAIN events
            /\ \A k \in Metrics :
                events[tasks[t].key][k] =
                    IF IsValid(tasks[t].r[k]) THEN ToFloat(tasks[t].r[k]) ELSE None
        /\ \A k \in Metrics :
            IF \E t \in Tasks : IsValid(tasks[t].r[k])
            THEN \E t \in Tasks :
                    /\ IsValid(tasks[t].r[k])
                    /\ latest_metrics[k] = [value |-> ToFloat(tasks[t].r[k]),
                                            event_id |-> tasks[t].key,
                                            updated_at |-> tasks[t].at]
            ELSE latest_metrics[k] = NoEntry

\* all calls completed, for distinct events, the first task having taken its
\* time first and the lock last, with different pitch velocities
C15_Witness ==
    /\ AllAddsDone
    /\ Len(order) = MaxTasks
    /\ order[Len(order)] = 1
    /\ \A t \in Tasks \ {1} : tasks[1].at < tasks[t].at
    /\ tasks[1].r # tasks[2].r
    /\ latest_metrics["pitch_velocity_mph"].event_id = tasks[1].key
    /\ latest_metrics["exit_velocity_mph"] # NoEntry
    /\ latest_metrics["spin_rate_rpm"] # NoEntry

\* the positions at which a task is inside `async with self._lock`
InLock == {"locked", "publish", "release"}

\* C16: every operation reads and writes the aggregator only while it holds the
\* lock: the aggregator changes only in a step of the task holding the lock, a
\* result is computed only by the task holding the lock, a task holds the lock
\* exactly while it is inside its `async with` block (whose steps are
\* computations, none a wait), at most one task is inside it, and a task that
\* took the lock releases it; so a summary is never computed while another
\* call's update is partly applied.
C16_LockCoversEveryAccess ==
    /\ [](\A t \in Tasks : (lock = t) <=> (tasks[t].pc \in InLock))
    /\ [](\A t, u \in Tasks : (tasks[t].pc \in InLock /\ tasks[u].pc \in InLock) => t = u)
    /\ [][aggVars' # aggVars
            => \E t \in Tasks :
                /\ lock = t
                /\ tasks'[t].pc # tasks[t].pc
                /\ \A u \in Tasks \ {t} : tasks'[u] = tasks[u]]_vars
    /\ [][\A t \in Tasks : tasks'[t].val # tasks[t].val => lock = t]_vars
    /\ [][\A t \in Tasks :
            (tasks[t].op \in {"latest_summary", "get_rolling_summary"}
                /\ tasks[t].pc = "locked" /\ tasks'[t].pc = "release")
            => \A u \in Tasks \ {t} : tasks[u].pc \notin InLock]_vars
    /\ \A t \in Tasks : (lock = t) ~> (lock # t /\ tasks[t].pc = "done")

\* a call of add_measurement holds the lock with its bucket stored and the
\* table not yet refreshed, while a call of latest_summary waits for the lock
C16_Witness ==
    /\ lock = 1
    /\ tasks[1].pc = "publish"
    /\ tasks[1].key \in DOMAIN events
    /\ latest_event_id # tasks[1].key
    /\ tasks[2].pc = "acquire"
    /\ tasks[2].op = "latest_summary"

\* every task has completed a call of add_measurement
OnlyAddsAllDone ==
    \A t \in Tasks : tasks[t].op = "add_measurement" /\ tasks[t].pc = "done"

\* C17 (first acquirer): after concurrent add_measurement calls have completed,
\* the latest event id is the event key of the call that acquired the lock first.
C17_FirstAcquirerIsLatest ==
    OnlyAddsAllDone => latest_event_id = tasks[order[1]].key

\* C17: after concurrent add_measurement calls have completed, the latest event
\* id and the latest update time are those of the call that acquired the lock
\* last, whatever the order in which the calls were made.
C17_LastAcquirerIsLatest ==
    OnlyAddsAllDone =>
        /\ latest_event_id = tasks[order[Len(order)]].key
        /\ last_update_ts = tasks[order[Len(order)]].at

\* two calls for different events completed; the one made first acquired the
\* lock last and is the latest
C17_Witness ==
    /\ OnlyAddsAllDone
    /\ order[1] = 2
    /\ order[Len(order)] = 1
    /\ tasks[1].at < tasks[2].at
    /\ tasks[1].key # tasks[2].key
    /\ latest_event_id = tasks[1].key
    /\ last_update_ts = tasks[1].at

-----------------------------------------------------------------------------
(* Further properties of the aggregator *)

IsZero(v) == v.t = "num" /\ v.m = 0

\* C18: no rolling buffer ever holds a sample of value zero: a valid reading
\* equal to 0 is stored in the bucket of its event and is not appended, and
\* get_rolling_summary reports 0 for no metric.
C18_NoZeroSample ==
    /\ \A k \in Metrics : \A i \in 1..Len(rolling_buffer[k]) :
        ~IsZero(rolling_buffer[k][i].value)
    /\ ret.op = "add_measurement"
        => \A k \in Metrics :
            (IsValid(ret.args[k]) /\ IsZero(ToFloat(ret.args[k])))
                => IsZero(events[ret.key][k])
    /\ ret.op = "get_rolling_summary"
        => \A k \in Metrics : ~IsZero(ret.val.m[k])

\* an exit velocity of 0 was accepted into a bucket, and get_rolling_summary,
\* called at once, reports no exit velocity
C18_Witness ==
    /\ ret.op = "get_rolling_summary"
    /\ ret.at = last_update_ts
    /\ latest_event_id \in DOMAIN events
    /\ IsZero(events[latest_event_id]["exit_velocity_mph"])
    /\ rolling_buffer["exit_velocity_mph"] = <<>>
    /\ ret.val.m["exit_velocity_mph"] = None

\* C19: get_rolling_summary never returns null: before the first measurement
\* and after any silence it returns a record whose event_id is the latest
\* event id of the aggregator (none before the first measurement), whose
\* updated_at is the time of the call and whose metric fields are each null or
\* a number.
C19_RollingSummaryNeverNull ==
    ret.op = "get_rolling_summary"
        => /\ ret.val.null = FALSE
           /\ ret.val.event_id = latest_event_id
           /\ ret.val.updated_at = ret.at
           /\ \A k \in Metrics : ret.val.m[k] = None \/ IsFloat(ret.val.m[k])

\* get_rolling_summary called more than 10 seconds after the last measurement:
\* every metric is null, the event id and the time of the call are reported
C19_Witness ==
    /\ ret.op = "get_rolling_summary"
    /\ last_update_ts # NullTs
    /\ ret.at - last_update_ts > StaleMs
    /\ ret.val.null = FALSE
    /\ ret.val.event_id = "demo-001"
    /\ ret.val.updated_at = now
    /\ \A k \in Metrics : ret.val.m[k] = None

\* C20: a call of add_measurement made without an event id resolves to an event
\* key that no earlier call resolved to, so it starts a bucket of its own.
C20_SynthesizedKeysDistinct ==
    [][(calls' = calls + 1 /\ ret'.op = "add_measurement" /\ ret'.key \notin ArgEventIds)
        => ret'.key \notin DOMAIN events]_vars

\* C21: add_measurement never raises: whatever the readings, the call returns a
\* summary, and a reading that is not valid is left out as if it were absent.
C21_AddMeasurementNeverRaises ==
    ret.op = "add_measurement"
        => /\ ret.exc = "none"
           /\ ret.val.null = FALSE
           /\ latest_event_id = ret.key

\* C22: cancelling the task of run() ends it in whichever state it is, connecting,
\* connected and waiting to receive, or asleep after a failure: no handler of
\* run() handles the CancelledError, and once the task is cancelled it stays so;
\* it makes no further connection attempt and changes neither the connection
\* state, the aggregator nor its failure record.
C22_CancellationTerminates ==
    /\ []("CancelledError" \notin fault.seen)
    /\ [][pc = "cancelled" =>
            /\ pc' = "cancelled"
            /\ UNCHANGED <<status, wakeAt, frames, fault, aggVars, calls>>]_vars
    /\ [][pc' = "cancelled" /\ pc # "cancelled" =>
            /\ pc \in {"loop", "ws_connect", "receive", "sleep"}
            /\ UNCHANGED <<status, wakeAt, frames, fault, aggVars, calls>>]_vars
    /\ [](pc = "cancelled" => [](pc = "cancelled" /\ ~ENABLED StartConnecting /\ ~ENABLED Wake))

\* cancelled in the backoff sleep of a handler, before the sleep is over, with
\* time passing afterwards
C22_Witness ==
    /\ pc = "cancelled"
    /\ status = "disconnected"
    /\ fault.n >= 1
    /\ wakeAt > StartMs + RetrySleepSeconds * MsPerSecond
    /\ now >= wakeAt

\* C23: the demo feed emits its samples in list order and starts the list again
\* after the last one; it has no exit of its own (its sleep ends, and the sample
\* it is about to emit makes neither process_payload nor add_measurement
\* raise); for each sample it dispatches
\* to every payload hook first and then changes the aggregator exactly as
\* process_payload does for the frame of the live feed that carries the same
\* sample as JSON text, received at the same instant.
C23_DemoFeedAsLiveFeed ==
    /\ [](pc \in {"demo_start", "demo_emit", "demo_sleep", "cancelled"})
    /\ [](pc \in {"demo_emit", "demo_sleep"} => status = "demo")
    /\ [](pc = "demo_sleep" /\ now >= wakeAt => ENABLED DemoWake)
    /\ [](pc = "demo_emit" => /\ ~PayloadRaises(DemoSampleAt(frames))
                              /\ \A k \in Metrics :
                                    ~IsValidRaises(ProcessReadings(DemoSampleAt(frames))[k]))
    /\ [][frames' # frames =>
            LET p == JsonLoads(DemoFrames[(frames % Len(DemoFrames)) + 1])
            IN  /\ frames' = frames + 1
                /\ arg' = p
                /\ hookLog'.frame = frames'
                /\ hookLog'.invoked = [i \in 1..hookLog.n |-> i]
                /\ hookLog'.calls = calls
                /\ calls' = calls + 1
                /\ ~PayloadRaises(p)
                /\ AddMeasurement(IdOr(p.event_uuid, p.eventId), ProcessReadings(p))]_vars

\* the list was emitted once and its first sample again, a hook having raised
C23_Witness ==
    /\ frames = Len(DemoSamples) + 1
    /\ arg = DemoSamples[1]
    /\ latest_event_id = "demo-001"
    /\ Cardinality(DOMAIN events) = 2
    /\ hookLog.raised # {}
    /\ pc = "demo_sleep"

\* C24: every add_measurement call, whatever its readings, makes its event key
\* the latest event identifier and its time the latest update time, and returns
\* a summary that is not null, carries that key and reports every valid reading
\* of the call as the float it converts to.
C24_EveryCallSetsLatest ==
    ret.op = "add_measurement"
        => /\ latest_event_id = ret.key
           /\ last_update_ts = ret.at
           /\ ret.val.null = FALSE
           /\ ret.val.event_id = ret.key
           /\ ret.val.updated_at = ret.at
           /\ \A k \in Metrics :
                IsValid(ret.args[k]) => ret.val.m[k] = ToFloat(ret.args[k])

\* C25: an add_measurement call for event E that returns at time t leaves, for
\* every metric E's bucket holds a value for, whether or not the call supplied
\* it, the table entry (bucket value, E, t), and leaves the table entry of every
\* other metric as it was.
C25_TableRefreshedFromBucket ==
    [][calls' # calls /\ ret'.op = "add_measurement" /\ ret'.exc = "none" =>
        \A k \in Metrics :
            IF events'[ret'.key][k] # None
            THEN latest_metrics'[k] = [value |-> events'[ret'.key][k],
                                       event_id |-> ret'.key,
                                       updated_at |-> ret'.at]
            ELSE latest_metrics'[k] = latest_metrics[k]]_vars

\* a call with no valid reading refreshed the entries of its event's bucket and
\* left the entry another event had set
C25_Witness ==
    /\ ret.op = "add_measurement"
    /\ \A k \in Metrics : ~IsValid(ret.args[k])
    /\ latest_metrics["spin_rate_rpm"] =
            [value |-> Dec(10314, 1), event_id |-> ret.key, updated_at |-> ret.at]
    /\ latest_metrics["exit_velocity_mph"] # NoEntry
    /\ latest_metrics["exit_velocity_mph"].event_id # ret.key
    /\ latest_metrics["exit_velocity_mph"].updated_at < ret.at

C27_ReadsOnlyPrune ==
    [][(ret'.op \in {"latest_summary", "get_rolling_summary"} /\ ret' # ret) =>
        /\ UNCHANGED <<events, latest_event_id, last_update_ts>>
        /\ \A k \in Metrics :
            \/ latest_metrics'[k] = latest_metrics[k]
            \/ /\ ret'.op = "latest_summary"
               /\ latest_metrics'[k] = NoEntry
               /\ now - latest_metrics[k].updated_at > StaleMs
        /\ \A k \in Metrics :
            LET InWindow(sample) == now - sample.timestamp < WindowMs
            IN  \/ rolling_buffer'[k] = rolling_buffer[k]
                \/ rolling_buffer'[k] = SelectSeq(rolling_buffer[k], InWindow)]_vars

\* latest_summary removed a stale entry whose value the bucket still holds, and
\* returned a summary
C27_Witness ==
    /\ ret.op = "latest_summary"
    /\ ret.val.null = FALSE
    /\ latest_metrics["pitch_velocity_mph"] = NoEntry
    /\ \E e \in DOMAIN events : events[e]["pitch_velocity_mph"] # None
    /\ latest_event_id # NullId
    /\ last_update_ts = 11000

\* C28: reads do not interfere with later results: at every instant, after any
\* calls at non-decreasing times, what latest_summary and get_rolling_summary
\* return is what they would return had no latest_summary or
\* get_rolling_summary been called before.
C28_ReadsDoNotInterfere ==
    /\ LatestSummaryResult = UnreadLatestSummaryResult
    /\ RollingSummaryResult = UnreadRollingSummaryResult
    /\ (ret.op = "latest_summary" /\ ret.at = now) => ret.val = UnreadLatestSummaryResult
    /\ (ret.op = "get_rolling_summary" /\ ret.at = now)
            => ret.val = UnreadRollingSummaryResult

\* a read has removed a table entry the aggregator never read still holds, a
\* call was made afterwards, and latest_summary has returned a summary
C28_Witness ==
    /\ ret.op = "latest_summary"
    /\ ret.at = now
    /\ ret.val.null = FALSE
    /\ \E k \in Metrics : unread.latest_metrics[k] # NoEntry /\ latest_metrics[k] = NoEntry
    /\ \E k \in Metrics : ret.val.m[k] # None

\* C29: in every state of the aggregator, each table entry names an existing
\* bucket that holds the entry's value for that metric, no entry is dated after
\* the latest update time, and the latest event identifier is null exactly when
\* the latest update time is null and exactly when there is no bucket.
C29_TableAgreesWithBuckets ==
    /\ \A k \in Metrics :
        latest_metrics[k] # NoEntry =>
            /\ latest_metrics[k].event_id \in DOMAIN events
            /\ events[latest_metrics[k].event_id][k] = latest_metrics[k].value
            /\ latest_metrics[k].updated_at <= last_update_ts
    /\ (latest_event_id = NullId) <=> (last_update_ts = NullTs)
    /\ (latest_event_id = NullId) <=> (DOMAIN events = {})

\* C30: the rolling view is a restriction of the absolute view: whenever
\* get_rolling_summary reports a value for a metric, latest_summary at the same
\* instant returns a summary that reports the same value for that metric.
C30_RollingRestrictsLatest ==
    \A k \in Metrics :
        RollingSummaryResult.m[k] # None =>
            /\ LatestSummaryResult.null = FALSE
            /\ LatestSummaryResult.m[k] = RollingSummaryResult.m[k]

\* C31: when the pitch data of a payload holds a valid zone speed or a valid
\* relative speed, processing the payload stores a pitch velocity for its event
\* taken from that payload: the zone speed if it is valid, otherwise the
\* relative speed.
C31_ValidPitchVelocityStored ==
    [][(/\ calls' = calls + 1
        /\ ret'.op = "add_measurement"
        /\ \/ IsValid(arg'.pitch_data.ZoneSpeedMPH)
           \/ IsValid(arg'.pitch_data.RelSpeedMPH))
       => events'[ret'.key]["pitch_velocity_mph"] =
            IF IsValid(arg'.pitch_data.ZoneSpeedMPH)
            THEN ToFloat(arg'.pitch_data.ZoneSpeedMPH)
            ELSE ToFloat(arg'.pitch_data.RelSpeedMPH)]_vars

=============================================================================
